---- MODULE Spec2Model ----
(***************************************************************************)
(* A model of src/galaxy/service/graphLoader.js: loadGraph(name, progress) *)
(* and the promise chain it builds                                         *)
(*   loadManifest -> loadPositions -> loadLinks -> loadLabels ->           *)
(*   convertToGraph.                                                       *)
(* Every invocation of loadGraph owns one closure (the var declarations of *)
(* lines 35-42); the variables below hold one copy of it per dataset name. *)
(* appConfig (the pinned manifest version, the scale factor) and appEvents *)
(* are process wide.  JavaScript runs every promise callback to            *)
(* completion, so one callback is one action.                              *)
(***************************************************************************)
EXTENDS Integers, Sequences, FiniteSets, TLC

\* ------------------------------------------------------------------ bounds
\* Largest source id a negative token of a generated stream declares.
MaxSrc == 1
\* Largest target id a non-negative token of a generated stream names.
MaxNode == 2
\* Longest links.bin stream (in int32 tokens) the decoder is run on.
MaxLen == 5
\* Longest positions.bin buffer (in int32 elements) the position decoder is
\* run on by itself.
MaxPositions == 3
\* The most progress events one request reports.
MaxProgress == 2

\* ----------------------------------------------------------- JS values
\* The value of `var srcIndex` (line 115, hoisted to the top of setLinks)
\* before its first assignment.  Assigned values are -v-1 >= 0, so a negative
\* number cannot be mistaken for one of them.
undefined == -2

\* `undefined` where a version string is expected: manifest.last or
\* appConfig.getManifestVersion() of a manifest / configuration without one.
noVersion == "undefined"

\* JavaScript's ToBoolean on a version string or undefined (line 67 ||, line 77 !).
Truthy(v) == v # noVersion /\ v # ""

\* A JavaScript array (or object) with holes: a function from the indices
\* that are set.  arr[k] = v:
Put(arr, k, v) == [x \in (DOMAIN arr) \cup {k} |-> IF x = k THEN v ELSE arr[x]]

\* `[]`, an array with no index set (lines 36, 37).
EmptyArray == [x \in {} |-> <<>>]

\* An ArrayBuffer as request() resolves it for responseType 'arraybuffer':
\* its int32 words, and whether its byte length is a multiple of 4.
\* new Int32Array(buffer) throws a RangeError when it is not (lines 93, 109).
Buffer(words) == [aligned |-> TRUE, int32 |-> words]
OddBuffer == [aligned |-> FALSE, int32 |-> <<>>]

\* ------------------------------------------------------- setLinks (108-129)
\* The state of setLinks' loop: the closure's outLinks and inLinks, and the
\* locals links, i, srcIndex and lastArray.  lastArray is a reference to one
\* of the arrays stored in outLinks: line 111 and line 116 assign the same
\* array to lastArray and to an index of outLinks in one statement, and
\* nothing else writes either, so the reference is modelled by that index.

\* Lines 109-111.
SetLinksEnterWithoutRoot(buffer, out, inn) ==
  [links |-> buffer.int32, i |-> 0, srcIndex |-> undefined, lastArray |-> 0,
   outLinks |-> out, inLinks |-> inn]

SetLinksEnter(buffer, out, inn) ==
  [links |-> buffer.int32, i |-> 0, srcIndex |-> undefined, lastArray |-> 0,
   outLinks |-> Put(out, 0, <<>>), inLinks |-> inn]

\* Lines 115-116: the negative token v declares a source.
DeclareSourceKeepingList(d, v) ==
  LET src == -v - 1 IN
  [d EXCEPT !.srcIndex = src, !.lastArray = src,
            !.outLinks = IF src \in DOMAIN @ THEN @ ELSE Put(@, src, <<>>)]

DeclareSourcePresizingInLinks(d, v) ==
  LET src == -v - 1 IN
  [d EXCEPT !.srcIndex = src, !.lastArray = src,
            !.outLinks = Put(@, src, <<>>),
            !.inLinks = IF src \in DOMAIN @ THEN @ ELSE Put(@, src, <<>>)]

DeclareSource(d, v) ==
  LET src == -v - 1 IN
  [d EXCEPT !.srcIndex = src, !.lastArray = src,
            !.outLinks = Put(@, src, <<>>)]

\* Lines 118-124: the non-negative token v is an edge of the current source.
AddEdgeWithoutDecrement(d, v) ==
  LET toNode == v IN
  [d EXCEPT !.outLinks = [@ EXCEPT ![d.lastArray] = Append(@, toNode)],
            !.inLinks = IF toNode \notin DOMAIN @
                        THEN Put(@, toNode, <<d.srcIndex>>)
                        ELSE [@ EXCEPT ![toNode] = Append(@, d.srcIndex)]]

AddEdgeOverwritingInLinks(d, v) ==
  LET toNode == v - 1 IN
  [d EXCEPT !.outLinks = [@ EXCEPT ![d.lastArray] = Append(@, toNode)],
            !.inLinks = Put(@, toNode, <<d.srcIndex>>)]

AddEdge(d, v) ==
  LET toNode == v - 1 IN
  [d EXCEPT !.outLinks = [@ EXCEPT ![d.lastArray] = Append(@, toNode)],
            !.inLinks = IF toNode \notin DOMAIN @
                        THEN Put(@, toNode, <<d.srcIndex>>)
                        ELSE [@ EXCEPT ![toNode] = Append(@, d.srcIndex)]]

\* Lines 113-125: the loop body for links[i] (i counted from 0 as in the
\* source; TLA+ sequences count from 1), followed by ++i.
SetLinksBody(d) ==
  LET v == d.links[d.i + 1]
      after == IF v < 0 THEN DeclareSource(d, v) ELSE AddEdge(d, v)
  IN  [after EXCEPT !.i = @ + 1]

\* Line 113: the loop, run until i reaches links.length.
RECURSIVE SetLinksLoop(_)
SetLinksLoop(d) == IF d.i < Len(d.links) THEN SetLinksLoop(SetLinksBody(d)) ELSE d

\* positions[i] *= scaleFactor on an Int32Array element (line 96), for an
\* integer factor in -32767..32767: the element keeps ToInt32 of the product, its
\* low 32 bits as a signed number.  The product is formed in 16-bit halves,
\* which is the same number and keeps every intermediate value below 2^31.
MulInt32(x, factor) ==
  LET low == (x % 65536) * factor
      high == ((x \div 65536) * factor + (low \div 65536)) % 65536
  IN  (IF high >= 32768 THEN high - 65536 ELSE high) * 65536 + (low % 65536)

\* ------------------------------------------------------------ the inputs
\* The dataset names loadGraph is called with, one call per name.
Names == {"npm", "bower"}

\* A manifest.json response (responseType 'json'): null, or an object whose
\* `last` is a version or missing and whose `all` is an array of versions
\* (its elements, as a set: line 80 only asks indexOf(..) >= 0) or missing.
\* A missing `all` is <<>>, a present one <<set>>.
NullManifest == [null |-> TRUE]
ManifestObject(last, all) == [null |-> FALSE, last |-> last, all |-> all]
Manifests ==
  {NullManifest} \cup
  {ManifestObject(last, all) :
     last \in {noVersion, "v1", "v2"},
     all \in {<<>>, <<{}>>, <<{"v1"}>>, <<{"v1", "v2"}>>, <<{"", "v2"}>>}}

\* What appConfig.getManifestVersion() may return before any load ran.
PinnedVersions == {noVersion, "", "v1", "v2", "v3"}

\* positions.bin responses.
PositionBuffers ==
  {Buffer(<<>>), Buffer(<<1, -2, 3>>), Buffer(<<1, 2, 3, 1073741824>>), OddBuffer}

\* appConfig.getScaleFactor().
ScaleFactors == {1, 2}

\* The int32 tokens of generated links.bin streams, and the streams.
Tokens == (-(MaxSrc + 1)) .. (MaxNode + 1)
Streams == UNION {[1..len -> Tokens] : len \in 0..MaxLen}

\* links.bin responses of the whole pipeline: a few streams, well formed and
\* not, and a buffer of odd length.
LinkBuffers ==
  {Buffer(<<>>), Buffer(<<-1, 2, 3, -2, 1>>), Buffer(<<2, -1>>), Buffer(<<-1, 0>>),
   OddBuffer}

\* The elements and the buffers the position decoder is run on by itself,
\* and the scale factors: elements whose product overflows 32 bits among them.
PositionValues == {-1073741825, -2, 0, 3, 1073741824}
PositionStreams == UNION {[1..len -> PositionValues] : len \in 0..MaxPositions}
PositionFactors == {-1, 0, 1, 2, 3}

\* labels.json responses.
LabelSets == {<<>>, <<"a", "b", "c">>}

\* ------------------------------------------------------------- the state
VARIABLES
  manifestVersion,    \* appConfig's manifest version (get/setManifestVersion)
  scaleFactor,        \* appConfig.getScaleFactor()
  setVersionCalls,    \* the calls of appConfig.setManifestVersion, in order
  pc,                 \* per name: where the promise chain of lines 44-48 is
  pending,            \* per name: the files whose request() is in flight
  requested,          \* per name: the request() calls made, in order
  error,              \* per name: what the returned promise rejected with; <<>> if nothing
  manifest,           \* per name: var manifest (line 42); <<>> until assigned
  appConfigVersion,   \* per name: getFromAppConfig's var appConfigVersion (line 73)
  galaxyEndpoint,     \* per name: var galaxyEndpoint (line 40), as path segments
  positionsBuffer,    \* per name: setPositions' argument (line 92); <<>> until called
  positions,          \* per name: var positions (line 35); <<>> until assigned
  labels,             \* per name: var labels (line 35); <<>> until assigned
  outLinks,           \* per name: var outLinks (line 36)
  inLinks,            \* per name: var inLinks (line 37)
  links,              \* per name: setLinks' var links (line 109)
  i,                  \* per name: setLinks' loop counter (line 113)
  srcIndex,           \* per name: setLinks' var srcIndex (line 115)
  lastArray,          \* per name: the index of outLinks that lastArray refers to
  fired,              \* per name: the appEvents fired by this load, in order
  progressCalls,      \* per name: the calls of reportProgress' callback, in order
  graph               \* per name: what the promise resolved with; <<>> until then

storeVars == <<manifestVersion, scaleFactor, setVersionCalls>>
chainVars == <<pc, pending, requested, error>>
dataVars ==
  <<manifest, appConfigVersion, galaxyEndpoint, positionsBuffer, positions, labels, graph>>
linkVars == <<outLinks, inLinks, links, i, srcIndex, lastArray>>
vars == <<storeVars, chainVars, dataVars, linkVars, fired, progressCalls>>

Init ==
  /\ manifestVersion \in PinnedVersions
  /\ scaleFactor \in ScaleFactors
  /\ setVersionCalls = <<>>
  /\ pc = [n \in Names |-> "idle"]
  /\ pending = [n \in Names |-> {}]
  /\ requested = [n \in Names |-> <<>>]
  /\ error = [n \in Names |-> <<>>]
  /\ manifest = [n \in Names |-> <<>>]
  /\ appConfigVersion = [n \in Names |-> noVersion]
  /\ galaxyEndpoint = [n \in Names |-> <<>>]
  /\ positionsBuffer = [n \in Names |-> <<>>]
  /\ positions = [n \in Names |-> <<>>]
  /\ labels = [n \in Names |-> <<>>]
  /\ outLinks = [n \in Names |-> EmptyArray]
  /\ inLinks = [n \in Names |-> EmptyArray]
  /\ links = [n \in Names |-> <<>>]
  /\ i = [n \in Names |-> 0]
  /\ srcIndex = [n \in Names |-> undefined]
  /\ lastArray = [n \in Names |-> 0]
  /\ fired = [n \in Names |-> <<>>]
  /\ graph = [n \in Names |-> <<>>]
  /\ progressCalls = [n \in Names |-> <<>>]

\* -------------------------------------------------- request() and the chain
\* request(galaxyEndpoint + '/' + file, ..) as called by the load of `name`
\* when its endpoint is `endpoint` (lines 60, 86, 102, 132).  `inflight`
\* are the load's requests still in flight when the call is made: the
\* request whose response the calling callback handles is not among them.
RequestBothAtOnce(name, inflight, endpoint, file) ==
  /\ pending' = [pending EXCEPT ![name] =
                   inflight \cup (IF file = "positions.bin"
                                  THEN {"positions.bin", "links.bin"} ELSE {file})]
  /\ requested' = [requested EXCEPT ![name] =
                     IF file = "positions.bin"
                     THEN @ \o <<[url |-> endpoint, file |-> file],
                                 [url |-> endpoint, file |-> "links.bin"]>>
                     ELSE Append(@, [url |-> endpoint, file |-> file])]

RequestFromBase(name, inflight, endpoint, file) ==
  /\ pending' = [pending EXCEPT ![name] = inflight \cup {file}]
  /\ requested' = [requested EXCEPT ![name] =
                     Append(@, [url |-> <<name>>, file |-> file])]

Request(name, inflight, endpoint, file) ==
  /\ pending' = [pending EXCEPT ![name] = inflight \cup {file}]
  /\ requested' = [requested EXCEPT ![name] =
                     Append(@, [url |-> endpoint, file |-> file])]

\* The response of `file` has arrived and no request follows it.
Received(name, file) ==
  /\ pending' = [pending EXCEPT ![name] = @ \ {file}]
  /\ UNCHANGED requested

\* A callback of the chain throws, or a request's promise rejects: no later
\* then-callback of lines 44-48 runs (none of them is a rejection handler)
\* and the promise loadGraph returned rejects with `e`.
Reject(name, e) ==
  /\ pc' = [pc EXCEPT ![name] = "rejected"]
  /\ error' = [error EXCEPT ![name] = e]

\* -------------------------------------------------------- loadGraph (34-48)
\* loadGraph(name, progress): the closure is created and loadManifest (59-63)
\* requests manifest.json from config.dataUrl + name.
LoadGraph(name) ==
  /\ pc[name] = "idle"
  /\ outLinks' = [outLinks EXCEPT ![name] = EmptyArray]
  /\ inLinks' = [inLinks EXCEPT ![name] = EmptyArray]
  /\ galaxyEndpoint' = [galaxyEndpoint EXCEPT ![name] = <<name>>]
  /\ Request(name, pending[name], <<name>>, "manifest.json")
  /\ pc' = [pc EXCEPT ![name] = "loadManifest"]
  /\ UNCHANGED <<storeVars, error, manifest, appConfigVersion, positionsBuffer, positions,
                 labels, graph, links, i, srcIndex, lastArray, fired, progressCalls>>

\* A request in flight fails: its promise rejects.
RequestFailsLinksSkipped(name, file) ==
  /\ file \in pending[name]
  /\ error' = [error EXCEPT ![name] = <<"TransportFailure", file>>]
  /\ IF file = "links.bin"
     THEN /\ Request(name, pending[name] \ {file}, galaxyEndpoint[name], "labels.json")
          /\ pc' = [pc EXCEPT ![name] = "loadLabels"]
     ELSE /\ Received(name, file)
          /\ pc' = [pc EXCEPT ![name] = "rejected"]
  /\ UNCHANGED <<storeVars, dataVars, linkVars, fired, progressCalls>>

RequestFails(name, file) ==
  /\ file \in pending[name]
  /\ Received(name, file)
  /\ Reject(name, <<"TransportFailure", file>>)
  /\ UNCHANGED <<storeVars, dataVars, linkVars, fired, progressCalls>>

\* ------------------------------------------------ setManifest (65-83)
\* getFromAppConfig(manifest) with appConfig.getManifestVersion() = pinned
\* (lines 72-83).
GetFromAppConfigUnchecked(m, pinned) ==
  LET approvedVersions == IF m.null THEN <<>> ELSE m.all IN
  IF approvedVersions = <<>> \/ ~Truthy(pinned) THEN noVersion
  ELSE pinned

GetFromAppConfig(m, pinned) ==
  LET approvedVersions == IF m.null THEN <<>> ELSE m.all IN
  IF approvedVersions = <<>> \/ ~Truthy(pinned) THEN noVersion
  ELSE IF pinned \in approvedVersions[1] THEN pinned
  ELSE noVersion

\* Line 67 for a manifest object: getFromAppConfig(manifest) || manifest.last.
ChosenVersion(m, pinned) ==
  LET fromAppConfig == GetFromAppConfig(m, pinned) IN
  IF Truthy(fromAppConfig) THEN fromAppConfig ELSE m.last

\* appConfig.setManifestVersion(version), line 69.
SetManifestVersionIfChanged(name, version) ==
  IF version = manifestVersion
  THEN UNCHANGED <<manifestVersion, setVersionCalls>>
  ELSE /\ manifestVersion' = version
       /\ setVersionCalls' = Append(setVersionCalls, [name |-> name, version |-> version])

SetManifestVersionOnce(name, version) ==
  IF setVersionCalls # <<>>
  THEN UNCHANGED <<manifestVersion, setVersionCalls>>
  ELSE /\ manifestVersion' = version
       /\ setVersionCalls' = Append(setVersionCalls, [name |-> name, version |-> version])

SetManifestVersion(name, version) ==
  /\ manifestVersion' = version
  /\ setVersionCalls' = Append(setVersionCalls, [name |-> name, version |-> version])

\* The manifest has arrived: setManifest(response), then loadPositions
\* (85-90).  For a null response line 67 reads manifest.last of null and
\* throws a TypeError after line 66 assigned manifest and line 73 read the
\* configuration.
SetManifest(name, response) ==
  /\ "manifest.json" \in pending[name]
  /\ manifest' = [manifest EXCEPT ![name] = <<response>>]
  /\ appConfigVersion' = [appConfigVersion EXCEPT ![name] = manifestVersion]
  /\ IF response.null
     THEN /\ Received(name, "manifest.json")
          /\ Reject(name, <<"TypeError", "manifest.json">>)
          /\ UNCHANGED <<storeVars, galaxyEndpoint>>
     ELSE LET version == ChosenVersion(response, manifestVersion) IN
          /\ galaxyEndpoint' = [galaxyEndpoint EXCEPT ![name] = Append(@, version)]
          /\ SetManifestVersion(name, version)
          /\ Request(name, pending[name] \ {"manifest.json"},
                     galaxyEndpoint'[name], "positions.bin")
          /\ pc' = [pc EXCEPT ![name] = "loadPositions"]
          /\ UNCHANGED <<scaleFactor, error>>
  /\ UNCHANGED <<positionsBuffer, positions, labels, graph, linkVars, fired, progressCalls>>

\* ------------------------------------------------ setPositions (92-99)
\* Lines 93-97: the Int32Array over the buffer, every element multiplied in
\* place by the scale factor.
ScaledPositionsFlat(buffer, factor) ==
  [k \in 1..Len(buffer.int32) |->
     IF k % 3 = 0 THEN buffer.int32[k] ELSE MulInt32(buffer.int32[k], factor)]

ScaledPositions(buffer, factor) ==
  [k \in 1..Len(buffer.int32) |-> MulInt32(buffer.int32[k], factor)]

\* positions.bin has arrived: setPositions(buffer), then loadLinks (101-106).
SetPositions(name, buffer) ==
  /\ "positions.bin" \in pending[name]
  /\ positionsBuffer' = [positionsBuffer EXCEPT ![name] = <<buffer>>]
  /\ IF ~buffer.aligned
     THEN /\ Received(name, "positions.bin")
          /\ Reject(name, <<"RangeError", "positions.bin">>)
          /\ UNCHANGED <<positions, fired>>
     ELSE /\ positions' = [positions EXCEPT ![name] = <<ScaledPositions(buffer, scaleFactor)>>]
          /\ fired' = [fired EXCEPT ![name] = Append(@, "positionsDownloaded")]
          /\ Request(name, pending[name] \ {"positions.bin"},
                     galaxyEndpoint[name], "links.bin")
          /\ pc' = [pc EXCEPT ![name] = "loadLinks"]
          /\ UNCHANGED error
  /\ UNCHANGED <<storeVars, manifest, appConfigVersion, galaxyEndpoint, labels, graph,
                 linkVars, progressCalls>>

\* ---------------------------------------------------- setLinks (108-129)
\* The loop state of the load of `name`.
LinkState(name) ==
  [links |-> links[name], i |-> i[name], srcIndex |-> srcIndex[name],
   lastArray |-> lastArray[name], outLinks |-> outLinks[name],
   inLinks |-> inLinks[name]]

\* The load of `name` takes loop state d.
SetLinkState(name, d) ==
  /\ links' = [links EXCEPT ![name] = d.links]
  /\ i' = [i EXCEPT ![name] = d.i]
  /\ srcIndex' = [srcIndex EXCEPT ![name] = d.srcIndex]
  /\ lastArray' = [lastArray EXCEPT ![name] = d.lastArray]
  /\ outLinks' = [outLinks EXCEPT ![name] = d.outLinks]
  /\ inLinks' = [inLinks EXCEPT ![name] = d.inLinks]

\* Line 128 and, setLinks having returned, loadLabels (131-136).
LinksDoneWithoutLabels(name) ==
  /\ fired' = [fired EXCEPT ![name] = Append(@, "linksDownloaded")]
  /\ pending' = [pending EXCEPT ![name] = @ \ {"links.bin"}]
  /\ pc' = [pc EXCEPT ![name] = "loadLabels"]
  /\ UNCHANGED <<requested, error>>

LinksDone(name) ==
  /\ fired' = [fired EXCEPT ![name] = Append(@, "linksDownloaded")]
  /\ Request(name, pending[name] \ {"links.bin"}, galaxyEndpoint[name], "labels.json")
  /\ pc' = [pc EXCEPT ![name] = "loadLabels"]
  /\ UNCHANGED error

\* links.bin has arrived: setLinks(buffer) from its first line to its last,
\* then loadLabels.
SetLinks(name, buffer) ==
  /\ "links.bin" \in pending[name]
  /\ IF ~buffer.aligned
     THEN /\ Received(name, "links.bin")
          /\ Reject(name, <<"RangeError", "links.bin">>)
          /\ UNCHANGED <<linkVars, fired>>
     ELSE /\ SetLinkState(name, SetLinksLoop(
                 SetLinksEnter(buffer, outLinks[name], inLinks[name])))
          /\ LinksDone(name)
  /\ UNCHANGED <<storeVars, dataVars, progressCalls>>

\* The same callback taken one step at a time, for what holds inside the
\* loop: lines 109-111, ...
SetLinksBegin(name, buffer) ==
  /\ pc[name] = "loadLinks"
  /\ "links.bin" \in pending[name]
  /\ IF ~buffer.aligned
     THEN /\ Received(name, "links.bin")
          /\ Reject(name, <<"RangeError", "links.bin">>)
          /\ UNCHANGED linkVars
     ELSE /\ SetLinkState(name, SetLinksEnter(buffer, outLinks[name], inLinks[name]))
          /\ pc' = [pc EXCEPT ![name] = "setLinks"]
          /\ Received(name, "links.bin")
          /\ UNCHANGED error
  /\ UNCHANGED <<storeVars, dataVars, fired, progressCalls>>

\* ... one iteration of the loop of line 113, ...
SetLinksIterate(name) ==
  /\ pc[name] = "setLinks"
  /\ i[name] < Len(links[name])
  /\ SetLinkState(name, SetLinksBody(LinkState(name)))
  /\ UNCHANGED <<storeVars, chainVars, dataVars, fired, progressCalls>>

\* ... and the loop's exit, line 128 and loadLabels.
SetLinksEnd(name) ==
  /\ pc[name] = "setLinks"
  /\ i[name] >= Len(links[name])
  /\ LinksDone(name)
  /\ UNCHANGED <<storeVars, dataVars, linkVars, progressCalls>>

\* ------------------------------------ setLabels, convertToGraph (138-141, 50-57)
\* createGraph's argument (lines 51-56).
ConvertToGraph(name, data) ==
  [positions |-> positions[name][1], labels |-> data,
   outLinks |-> outLinks[name], inLinks |-> inLinks[name]]

\* labels.json has arrived: setLabels(data), then convertToGraph, whose value
\* the promise loadGraph returned resolves with.
SetLabels(name, data) ==
  /\ "labels.json" \in pending[name]
  /\ labels' = [labels EXCEPT ![name] = <<data>>]
  /\ fired' = [fired EXCEPT ![name] = Append(@, "labelsDownloaded")]
  /\ graph' = [graph EXCEPT ![name] = <<ConvertToGraph(name, data)>>]
  /\ Received(name, "labels.json")
  /\ pc' = [pc EXCEPT ![name] = "resolved"]
  /\ UNCHANGED <<storeVars, error, manifest, appConfigVersion, galaxyEndpoint,
                 positionsBuffer, positions,
                 linkVars, progressCalls>>

\* ------------------------------------------------ reportProgress (143-151)
\* The `file` argument reportProgress is called with for the request of a
\* file; loadManifest passes no progress option (lines 60-62, 88, 104, 134).
ProgressKind ==
  [file \in {"positions.bin", "links.bin", "labels.json"} |->
     CASE file = "positions.bin" -> "positions"
       [] file = "links.bin" -> "links"
       [] file = "labels.json" -> "labels"]

\* The object the returned function passes to `progress` for an event e
\* whose e.percent is permille/1000: Math.round(e.percent * 100) is
\* floor(permille/10 + 1/2), and `completed` that number followed by '%'.
ReportProgressOfPositions(name, file, permille) ==
  [name |-> name, file |-> "positions", completed |-> <<(permille + 5) \div 10, "%">>]

ReportProgress(name, file, permille) ==
  [name |-> name, file |-> file, completed |-> <<(permille + 5) \div 10, "%">>]

\* The e.percent of the events request() has reported for `file`, oldest
\* first.
ReportedFor(name, file) ==
  SelectSeq(progressCalls[name], LAMBDA c : c.request = file)

\* request() reports progress on `file`: while the request is in flight, to
\* the function its progress option holds, with a fraction of the response
\* between 0 and 1 that is no less than the fractions reported before.
Progress(name, file, permille) ==
  /\ file \in pending[name]
  /\ file \in DOMAIN ProgressKind
  /\ Len(ReportedFor(name, file)) < MaxProgress
  /\ \A k \in 1..Len(ReportedFor(name, file)) : ReportedFor(name, file)[k].permille <= permille
  /\ progressCalls' = [progressCalls EXCEPT ![name] =
        Append(@, [request |-> file, permille |-> permille,
                   progress |-> ReportProgress(name, ProgressKind[file], permille)])]
  /\ UNCHANGED <<storeVars, chainVars, dataVars, linkVars, fired>>

\* ----------------------------------------------------- the specifications
\* One load, from loadGraph to the end of its chain, on every manifest,
\* configuration and file response of the sets above.
Load == "npm"

Files == {"manifest.json", "positions.bin", "links.bin", "labels.json"}

Next ==
  \/ LoadGraph(Load)
  \/ \E file \in Files : RequestFails(Load, file)
  \/ \E response \in Manifests : SetManifest(Load, response)
  \/ \E buffer \in PositionBuffers : SetPositions(Load, buffer)
  \/ \E buffer \in LinkBuffers : SetLinks(Load, buffer)
  \/ \E data \in LabelSets : SetLabels(Load, data)

Spec == Init /\ [][Next]_vars

\* The same load when every request in flight is answered in the end: its
\* response arrives and the then-callback of lines 44-48, 62, 89, 105, 135
\* runs, or it fails.
Answered(name) ==
  \/ \E file \in Files : RequestFails(name, file)
  \/ \E response \in Manifests : SetManifest(name, response)
  \/ \E buffer \in PositionBuffers : SetPositions(name, buffer)
  \/ \E buffer \in LinkBuffers : SetLinks(name, buffer)
  \/ \E data \in LabelSets : SetLabels(name, data)

SpecAnswered == Spec /\ WF_vars(Answered(Load))

\* One load with the progress events of its requests, on one manifest and
\* one response per file, each request reporting up to MaxProgress
\* fractions, in thousandths.
ProgressFractions == {0, 125, 994, 1000}

InitProgress == Init /\ manifestVersion = noVersion /\ scaleFactor = 1

NextProgress ==
  \/ LoadGraph(Load)
  \/ \E file \in Files : RequestFails(Load, file)
  \/ SetManifest(Load, ManifestObject("v1", <<{"v1"}>>))
  \/ SetPositions(Load, Buffer(<<1, -2, 3>>))
  \/ SetLinks(Load, Buffer(<<-1, 2>>))
  \/ SetLabels(Load, <<"a", "b">>)
  \/ \E file \in Files, permille \in ProgressFractions : Progress(Load, file, permille)

SpecProgress == InitProgress /\ [][NextProgress]_vars

\* Two loads, loadGraph("npm") and loadGraph("bower"), whose callbacks
\* interleave in any order, each callback run to completion, on a few
\* manifests and one response per data file; both use the one appConfig.
ConcurrentManifests ==
  {NullManifest, ManifestObject("v2", <<{"v2"}>>),
   ManifestObject("v2", <<{"v1", "v2"}>>), ManifestObject(noVersion, <<>>)}

InitConcurrent == Init /\ manifestVersion \in {noVersion, "v1"} /\ scaleFactor = 1

NextConcurrent ==
  \E name \in Names :
    \/ LoadGraph(name)
    \/ \E file \in Files : RequestFails(name, file)
    \/ \E response \in ConcurrentManifests : SetManifest(name, response)
    \/ SetPositions(name, Buffer(<<1, -2, 3>>))
    \/ SetLinks(name, Buffer(<<-1, 2>>))
    \/ SetLabels(name, <<"a", "b">>)

SpecConcurrent == InitConcurrent /\ [][NextConcurrent]_vars

\* setLinks alone, one loop iteration at a time, on every stream of Streams
\* and on a buffer of odd length.  It starts where a load is when links.bin
\* is in flight: after loadGraph("npm"), the manifest {last: "v2", all:
\* ["v1", "v2"]} with nothing pinned, and the positions 1, -2, 3 at scale 1.
InitLinks ==
  /\ manifestVersion = "v2"
  /\ scaleFactor = 1
  /\ setVersionCalls = <<[name |-> Load, version |-> "v2"]>>
  /\ pc = [n \in Names |-> IF n = Load THEN "loadLinks" ELSE "idle"]
  /\ pending = [n \in Names |-> IF n = Load THEN {"links.bin"} ELSE {}]
  /\ requested = [n \in Names |->
       IF n = Load
       THEN <<[url |-> <<Load>>, file |-> "manifest.json"],
              [url |-> <<Load, "v2">>, file |-> "positions.bin"],
              [url |-> <<Load, "v2">>, file |-> "links.bin"]>>
       ELSE <<>>]
  /\ error = [n \in Names |-> <<>>]
  /\ manifest = [n \in Names |->
       IF n = Load THEN <<ManifestObject("v2", <<{"v1", "v2"}>>)>> ELSE <<>>]
  /\ appConfigVersion = [n \in Names |-> noVersion]
  /\ galaxyEndpoint = [n \in Names |-> IF n = Load THEN <<Load, "v2">> ELSE <<>>]
  /\ positionsBuffer = [n \in Names |-> IF n = Load THEN <<Buffer(<<1, -2, 3>>)>> ELSE <<>>]
  /\ positions = [n \in Names |-> IF n = Load THEN << <<1, -2, 3>> >> ELSE <<>>]
  /\ labels = [n \in Names |-> <<>>]
  /\ outLinks = [n \in Names |-> EmptyArray]
  /\ inLinks = [n \in Names |-> EmptyArray]
  /\ links = [n \in Names |-> <<>>]
  /\ i = [n \in Names |-> 0]
  /\ srcIndex = [n \in Names |-> undefined]
  /\ lastArray = [n \in Names |-> 0]
  /\ fired = [n \in Names |-> IF n = Load THEN <<"positionsDownloaded">> ELSE <<>>]
  /\ graph = [n \in Names |-> <<>>]
  /\ progressCalls = [n \in Names |-> <<>>]

NextLinks ==
  \/ /\ pc[Load] = "loadLinks"
     /\ \E buffer \in {Buffer(s) : s \in Streams} \cup {OddBuffer} :
          SetLinksBegin(Load, buffer)
  \/ SetLinksIterate(Load)
  \/ SetLinksEnd(Load)

SpecLinks == InitLinks /\ [][NextLinks]_vars

\* ------------------------------------------------- what a stream declares
\* setLinks has run to its end for the load: line 128 fired and loadLabels
\* is what the chain waits for.  links holds the decoded stream.
Decoded(name) == pc[name] = "loadLabels"

\* The (sourceId, [targets...]) pairs of a stream that is empty or starts
\* with a negative token, and the encoding of a sequence of pairs:
\* -(sourceId+1), then target+1 for each target.
RECURSIVE PairsOf(_)
PairsOf(s) ==
  IF s = <<>> THEN <<>>
  ELSE LET last == CHOOSE k \in 1..Len(s) :
                     s[k] < 0 /\ \A j \in (k + 1)..Len(s) : s[j] >= 0
       IN  Append(PairsOf(SubSeq(s, 1, last - 1)),
                  [source |-> -s[last] - 1,
                   targets |-> [j \in 1..(Len(s) - last) |-> s[last + j] - 1]])

RECURSIVE Encode(_)
Encode(pairs) ==
  IF pairs = <<>> THEN <<>>
  ELSE LET p == pairs[Len(pairs)] IN
       Encode(SubSeq(pairs, 1, Len(pairs) - 1))
         \o <<-(p.source + 1)>> \o [j \in 1..Len(p.targets) |-> p.targets[j] + 1]

\* A stream the encoding produces from pairs of node ids (ids >= 0).
BuiltFromPairs(s) ==
  /\ s = <<>> \/ s[1] < 0
  /\ \A k \in 1..Len(s) : s[k] # 0

\* The edges (source, target) of a sequence of pairs, in stream order, and
\* the sources of those that lead to t.
RECURSIVE EdgesOf(_)
EdgesOf(pairs) ==
  IF pairs = <<>> THEN <<>>
  ELSE LET p == pairs[Len(pairs)] IN
       EdgesOf(SubSeq(pairs, 1, Len(pairs) - 1))
         \o [j \in 1..Len(p.targets) |-> <<p.source, p.targets[j]>>]

SourcesInto(pairs, t) ==
  LET Into(e) == e[2] = t
      into == SelectSeq(EdgesOf(pairs), Into)
  IN  [k \in 1..Len(into) |-> into[k][1]]

\* C3 as stated: after decoding a stream built from pairs, outLinks holds
\* the target list of every pair under its source, and inLinks[t] the sources
\* of the edges into t in stream order.
C3_EveryPairReproduced ==
  (Decoded(Load) /\ BuiltFromPairs(links[Load])) =>
    LET pairs == PairsOf(links[Load]) IN
    /\ Encode(pairs) = links[Load]
    /\ \A k \in 1..Len(pairs) :
         /\ pairs[k].source \in DOMAIN outLinks[Load]
         /\ outLinks[Load][pairs[k].source] = pairs[k].targets
    /\ \A e \in {EdgesOf(pairs)[k] : k \in 1..Len(EdgesOf(pairs))} :
         /\ e[2] \in DOMAIN inLinks[Load]
         /\ inLinks[Load][e[2]] = SourcesInto(pairs, e[2])

\* C3 as amended: after decoding a stream built from pairs, outLinks[s] is
\* the target list of the last pair given for s, in its order (so every list
\* is reproduced when no source id is given twice), and inLinks[t] holds the
\* source of every edge into t, of every pair, in stream order.
C3_LastPairReproduced ==
  (Decoded(Load) /\ BuiltFromPairs(links[Load])) =>
    LET pairs == PairsOf(links[Load]) IN
    /\ Encode(pairs) = links[Load]
    /\ \A k \in 1..Len(pairs) :
         /\ pairs[k].source \in DOMAIN outLinks[Load]
         /\ (\A j \in (k + 1)..Len(pairs) : pairs[j].source # pairs[k].source)
              => outLinks[Load][pairs[k].source] = pairs[k].targets
    /\ \A e \in {EdgesOf(pairs)[k] : k \in 1..Len(EdgesOf(pairs))} :
         /\ e[2] \in DOMAIN inLinks[Load]
         /\ inLinks[Load][e[2]] = SourcesInto(pairs, e[2])

\* reached: two pairs with distinct sources and a target with two edges
\* into it have been decoded.
C3_Witness ==
  /\ Decoded(Load)
  /\ links[Load] = <<-2, 3, 1, -1, 3>>
  /\ inLinks[Load][2] = <<1, 0>>

\* ------------------------------------------------------ counting a stream
NegativeTokens(s) == {k \in 1..Len(s) : s[k] < 0}
NonNegativeTokens(s) == {k \in 1..Len(s) : s[k] >= 0}

\* The ids the negative tokens of s declare, and the ids its non-negative
\* tokens decrement to.
DeclaredSources(s) == {-s[k] - 1 : k \in NegativeTokens(s)}
DecrementedTargets(s) == {s[k] - 1 : k \in NonNegativeTokens(s)}

\* The source a token at position k belongs to: the one the nearest negative
\* token before it declares, and 0 before the first negative token.
SourceAt(s, k) ==
  LET before == {j \in NegativeTokens(s) : j < k} IN
  IF before = {} THEN 0
  ELSE -s[CHOOSE j \in before : \A h \in before : h <= j] - 1

\* The non-negative tokens whose source is not declared again after them.
LastingEdges(s) ==
  {k \in NonNegativeTokens(s) :
     \A j \in NegativeTokens(s) : j > k => -s[j] - 1 # SourceAt(s, k)}

\* The number of entries of all the lists of an adjacency mapping.
RECURSIVE EntryCount(_)
EntryCount(adj) ==
  IF DOMAIN adj = {} THEN 0
  ELSE LET k == CHOOSE x \in DOMAIN adj : TRUE IN
       Len(adj[k]) + EntryCount([x \in (DOMAIN adj) \ {k} |-> adj[x]])

\* C4 as stated: after decoding any stream, the lists of outLinks hold as
\* many entries as the stream has non-negative tokens, and outLinks has as
\* many entries as the stream has negative tokens.
C4_CountsEqualTokenCounts ==
  Decoded(Load) =>
    /\ EntryCount(outLinks[Load]) = Cardinality(NonNegativeTokens(links[Load]))
    /\ Cardinality(DOMAIN outLinks[Load]) = Cardinality(NegativeTokens(links[Load]))

\* C4 as amended: after decoding any stream, the lists of outLinks hold one
\* entry for every non-negative token whose source (0 before the first
\* negative token) is not declared again later in the stream, the lists of
\* inLinks hold one entry for every non-negative token, and outLinks has one
\* entry for every distinct id the negative tokens declare and one for id 0.
C4_CountsOfLastingEdges ==
  Decoded(Load) =>
    /\ EntryCount(outLinks[Load]) = Cardinality(LastingEdges(links[Load]))
    /\ EntryCount(inLinks[Load]) = Cardinality(NonNegativeTokens(links[Load]))
    /\ Cardinality(DOMAIN outLinks[Load])
         = Cardinality(DeclaredSources(links[Load]) \cup {0})

\* reached: a decoded stream that declares a source twice, with an edge
\* lost to the second declaration and one that lasts.
C4_Witness ==
  /\ Decoded(Load)
  /\ links[Load] = <<-2, 1, -2, 3>>
  /\ EntryCount(outLinks[Load]) = 1
  /\ EntryCount(inLinks[Load]) = 2

\* C5 as stated: after decoding any stream, an id no negative token declares
\* has no entry in outLinks and an id no non-negative token decrements to
\* has no entry in inLinks.
C5_OnlyDeclaredAndTargeted ==
  Decoded(Load) =>
    /\ DOMAIN outLinks[Load] \subseteq DeclaredSources(links[Load])
    /\ DOMAIN inLinks[Load] \subseteq DecrementedTargets(links[Load])

\* C5 as amended: after decoding any stream, an id other than 0 that no
\* negative token declares has no entry in outLinks (id 0 always has one),
\* and an id no non-negative token decrements to has no entry in inLinks.
C5_SparseExceptRoot ==
  Decoded(Load) =>
    /\ DOMAIN outLinks[Load] \subseteq DeclaredSources(links[Load]) \cup {0}
    /\ 0 \in DOMAIN outLinks[Load]
    /\ DOMAIN inLinks[Load] \subseteq DecrementedTargets(links[Load])

\* reached: a decoded stream that declares source 1 only and has one edge,
\* into node 2: outLinks has entries 0 and 1, inLinks entry 2 alone.
C5_Witness ==
  /\ Decoded(Load)
  /\ links[Load] = <<-2, 3>>
  /\ DOMAIN outLinks[Load] = {0, 1}
  /\ DOMAIN inLinks[Load] = {2}

\* The links buffer of the end-to-end scenario.
ScenarioLinks == <<-1, 2, 3, -2, 1>>

\* C6 as stated: the buffer [-1, 2, 3, -2, 1] decodes to outLinks =
\* {0: [1,2], 1: [0]} and inLinks = {1: [0], 2: [0]}, with no other entries.
C6_ScenarioAsStated ==
  (Decoded(Load) /\ links[Load] = ScenarioLinks) =>
    /\ outLinks[Load] = (0 :> <<1, 2>>) @@ (1 :> <<0>>)
    /\ inLinks[Load] = (1 :> <<0>>) @@ (2 :> <<0>>)

\* C6 as amended: the buffer [-1, 2, 3, -2, 1] decodes to outLinks =
\* {0: [1,2], 1: [0]} and inLinks = {0: [1], 1: [0], 2: [0]}, with no other
\* entries: the last token is an edge from node 1 into node 0.
C6_Scenario ==
  (Decoded(Load) /\ links[Load] = ScenarioLinks) =>
    /\ outLinks[Load] = (0 :> <<1, 2>>) @@ (1 :> <<0>>)
    /\ inLinks[Load] = (0 :> <<1>>) @@ (1 :> <<0>>) @@ (2 :> <<0>>)

\* reached: the scenario's buffer has been decoded.
C6_Witness ==
  /\ Decoded(Load)
  /\ links[Load] = ScenarioLinks
  /\ fired[Load] = <<"positionsDownloaded", "linksDownloaded">>

\* ------------------------------------------------------ version resolution
\* setManifest has run to its end for the load: the endpoint has its
\* version segment.
Resolved(name) == Len(galaxyEndpoint[name]) = 2

\* The manifest the load received, the pinned version it read and the
\* version it chose.
ManifestOf(name) == manifest[name][1]
ApprovedOf(name) == IF ManifestOf(name).all = <<>> THEN {} ELSE ManifestOf(name).all[1]
PinnedOf(name) == appConfigVersion[name]
ChosenOf(name) == galaxyEndpoint[name][2]

\* C1 as stated: the chosen version equals the pinned version p if and only
\* if p is in manifest.all; otherwise it is manifest.last; with no pinned
\* version it is manifest.last.  (Stated for the pinned versions that are
\* not the empty string, which line 77 treats as no pinned version.)
C1_ChosenIffApproved ==
  \A n \in Names : Resolved(n) =>
    /\ (PinnedOf(n) # noVersion /\ PinnedOf(n) # "") =>
         /\ ChosenOf(n) = PinnedOf(n) <=> PinnedOf(n) \in ApprovedOf(n)
         /\ PinnedOf(n) \notin ApprovedOf(n) => ChosenOf(n) = ManifestOf(n).last
    /\ PinnedOf(n) = noVersion => ChosenOf(n) = ManifestOf(n).last

\* C1 as amended: for every manifest object, the chosen version is the
\* pinned version p when p is present, not the empty string and in
\* manifest.all; in every other case (p absent or empty, p not in
\* manifest.all, manifest.all missing) it is manifest.last.  The converse of
\* the first part does not hold: a p that is not approved is still the
\* chosen version when it equals manifest.last.
C1_ChosenVersion ==
  \A n \in Names : Resolved(n) =>
    IF PinnedOf(n) # noVersion /\ PinnedOf(n) # "" /\ PinnedOf(n) \in ApprovedOf(n)
    THEN ChosenOf(n) = PinnedOf(n)
    ELSE ChosenOf(n) = ManifestOf(n).last

\* reached: the manifest {last: "v2", all: ["v1", "v2"]} with "v1" pinned
\* has resolved to "v1".
C1_Witness ==
  /\ Resolved(Load)
  /\ ManifestOf(Load) = ManifestObject("v2", <<{"v1", "v2"}>>)
  /\ PinnedOf(Load) = "v1"
  /\ ChosenOf(Load) = "v1"

\* The calls of appConfig.setManifestVersion the load of `name` made.
WritesOf(name) ==
  LET Mine(call) == call.name = name IN SelectSeq(setVersionCalls, Mine)

\* C2 as stated: a load whose manifest has arrived has written the store
\* exactly once, with the version it resolved; any other load has not
\* written it.
C2_WrittenOncePerManifest ==
  \A n \in Names :
    IF manifest[n] # <<>>
    THEN /\ Len(WritesOf(n)) = 1
         /\ Resolved(n) /\ WritesOf(n)[1].version = ChosenOf(n)
    ELSE WritesOf(n) = <<>>

\* C2 as amended: a load whose manifest has arrived and is not null has
\* written the store exactly once, with the version it resolved, whether or
\* not that is the value it read from the store; a load whose manifest has
\* not arrived, or arrived as null (setManifest throws before line 69), has
\* not written it; and the store holds what was written last.
C2_WrittenOncePerManifestObject ==
  /\ \A n \in Names :
       IF manifest[n] # <<>> /\ ~ManifestOf(n).null
       THEN /\ Len(WritesOf(n)) = 1
            /\ Resolved(n) /\ WritesOf(n)[1].version = ChosenOf(n)
       ELSE WritesOf(n) = <<>>
  /\ setVersionCalls # <<>> =>
       manifestVersion = setVersionCalls[Len(setVersionCalls)].version

\* reached: a load has written the store with the very version it read
\* from it.
C2_Witness ==
  /\ Len(WritesOf(Load)) = 1
  /\ WritesOf(Load)[1].version = "v1"
  /\ PinnedOf(Load) = "v1"
  /\ manifestVersion = "v1"

\* ------------------------------------------------------------ the pipeline
\* Whether sequence s is the beginning of sequence t.
IsPrefix(s, t) == Len(s) <= Len(t) /\ s = SubSeq(t, 1, Len(s))

EventOrder == <<"positionsDownloaded", "linksDownloaded", "labelsDownloaded">>
FileOrder == <<"manifest.json", "positions.bin", "links.bin", "labels.json">>

\* The files the load requested, in the order of its request() calls.
RequestedFiles(name) == [k \in 1..Len(requested[name]) |-> requested[name][k].file]

\* The place of a file in FileOrder.
FileIndex(file) == CHOOSE k \in 1..Len(FileOrder) : FileOrder[k] = file

\* C7: the events a load has fired are positionsDownloaded, then
\* linksDownloaded, then labelsDownloaded: at every moment a beginning of
\* that sequence, in whatever order the responses could arrive.
C7_NotificationOrder ==
  \A n \in Names : IsPrefix(fired[n], EventOrder)

\* reached: all three events have fired.
C7_Witness == fired[Load] = EventOrder /\ pc[Load] = "resolved"

\* C8: once a load has failed -- a request of it failed, or a callback threw
\* -- its promise is rejected with that error, the failed file is the last
\* one it ever requested, nothing is in flight, the events fired are those
\* of the files before the failed one, nothing of the failed file or a later
\* one has been decoded, and no graph is made.  In particular a failed links
\* fetch leaves labels.json unrequested.
C8_FailureAborts ==
  \A n \in Names : error[n] # <<>> =>
    LET failed == FileIndex(error[n][2]) IN
    /\ pc[n] = "rejected"
    /\ RequestedFiles(n) = SubSeq(FileOrder, 1, failed)
    /\ pending[n] = {}
    /\ fired[n] = SubSeq(EventOrder, 1, failed - 2)
    /\ failed <= 2 => positions[n] = <<>>
    /\ failed <= 3 => outLinks[n] = EmptyArray /\ inLinks[n] = EmptyArray
    /\ labels[n] = <<>>
    /\ graph[n] = <<>>

\* reached: the links fetch has failed after positions were decoded.
C8_Witness ==
  /\ error[Load] = <<"TransportFailure", "links.bin">>
  /\ fired[Load] = <<"positionsDownloaded">>
  /\ pc[Load] = "rejected"

\* C9: a load has at most one request in flight; it requests manifest.json,
\* positions.bin, links.bin and labels.json in this order; and when a file
\* is requested the response of the one before it has been processed: the
\* version is chosen before positions.bin is requested, the positions are
\* set and announced before links.bin is, the links announced before
\* labels.json is.
C9_OneFetchAtATime ==
  \A n \in Names :
    /\ Cardinality(pending[n]) <= 1
    /\ IsPrefix(RequestedFiles(n), FileOrder)
    /\ \A file \in pending[n] : file = requested[n][Len(requested[n])].file
    /\ Len(requested[n]) >= 2 => Resolved(n) /\ manifest[n] # <<>>
    /\ Len(requested[n]) >= 3 => positions[n] # <<>> /\ Len(fired[n]) >= 1
    /\ Len(requested[n]) >= 4 => Len(fired[n]) >= 2

\* reached: the fourth request, labels.json, is the one in flight.
C9_Witness ==
  /\ pending[Load] = {"labels.json"}
  /\ Len(requested[Load]) = 4

\* C10: a links stream whose first token is non-negative makes the load
\* fail with a DataMalformed error of links.bin, and no edge of an undefined
\* source is recorded in inLinks.
C10_LeadingEdgeRejected ==
  \A n \in Names : (links[n] # <<>> /\ links[n][1] >= 0) =>
    /\ pc[n] = "rejected"
    /\ error[n] = <<"DataMalformed", "links.bin">>
    /\ \A t \in DOMAIN inLinks[n] :
         \A k \in 1..Len(inLinks[n][t]) : inLinks[n][t][k] # undefined

\* ------------------------------------------------------- malformed inputs
\* C11: a links stream with a token equal to 0 makes the load fail with a
\* DataMalformed error of links.bin: inLinks gets no entry -1, no list of
\* outLinks gets the element -1, and no graph is made.
C11_ZeroTokenRejected ==
  \A n \in Names : (\E k \in 1..Len(links[n]) : links[n][k] = 0) =>
    /\ pc[n] = "rejected"
    /\ error[n] = <<"DataMalformed", "links.bin">>
    /\ -1 \notin DOMAIN inLinks[n]
    /\ \A s \in DOMAIN outLinks[n] :
         \A k \in 1..Len(outLinks[n][s]) : outLinks[n][s][k] # -1
    /\ graph[n] = <<>>

\* C12: a positions buffer whose number of int32 elements is not a multiple
\* of 3 makes the load fail with a DataMalformed error of positions.bin:
\* positionsDownloaded is not fired and links.bin is not requested.
C12_RaggedPositionsRejected ==
  \A n \in Names :
    (/\ positionsBuffer[n] # <<>>
     /\ positionsBuffer[n][1].aligned
     /\ Len(positionsBuffer[n][1].int32) % 3 # 0) =>
      /\ pc[n] = "rejected"
      /\ error[n] = <<"DataMalformed", "positions.bin">>
      /\ fired[n] = <<>>
      /\ \A k \in 1..Len(requested[n]) : requested[n][k].file # "links.bin"

\* C13: a manifest without `last`, when no version is pinned or the pinned
\* one is not approved, makes the load fail: nothing but manifest.json is
\* requested and the store is not written.
C13_MissingLastIsFatal ==
  \A n \in Names :
    (/\ manifest[n] # <<>>
     /\ ~ManifestOf(n).null
     /\ ManifestOf(n).last = noVersion
     /\ PinnedOf(n) = noVersion \/ PinnedOf(n) \notin ApprovedOf(n)) =>
      /\ pc[n] = "rejected"
      /\ error[n] # <<>>
      /\ RequestedFiles(n) = <<"manifest.json">>
      /\ WritesOf(n) = <<>>

\* setPositions alone, on every buffer of PositionStreams, a buffer of odd
\* length and every factor of PositionFactors.  It starts where a load is
\* when positions.bin is in flight: after loadGraph("npm") and the manifest
\* {last: "v2", all: ["v1", "v2"]} with nothing pinned.
InitPositions ==
  /\ manifestVersion = "v2"
  /\ scaleFactor \in PositionFactors
  /\ setVersionCalls = <<[name |-> Load, version |-> "v2"]>>
  /\ pc = [n \in Names |-> IF n = Load THEN "loadPositions" ELSE "idle"]
  /\ pending = [n \in Names |-> IF n = Load THEN {"positions.bin"} ELSE {}]
  /\ requested = [n \in Names |->
       IF n = Load
       THEN <<[url |-> <<Load>>, file |-> "manifest.json"],
              [url |-> <<Load, "v2">>, file |-> "positions.bin"]>>
       ELSE <<>>]
  /\ error = [n \in Names |-> <<>>]
  /\ manifest = [n \in Names |->
       IF n = Load THEN <<ManifestObject("v2", <<{"v1", "v2"}>>)>> ELSE <<>>]
  /\ appConfigVersion = [n \in Names |-> noVersion]
  /\ galaxyEndpoint = [n \in Names |-> IF n = Load THEN <<Load, "v2">> ELSE <<>>]
  /\ positionsBuffer = [n \in Names |-> <<>>]
  /\ positions = [n \in Names |-> <<>>]
  /\ labels = [n \in Names |-> <<>>]
  /\ outLinks = [n \in Names |-> EmptyArray]
  /\ inLinks = [n \in Names |-> EmptyArray]
  /\ links = [n \in Names |-> <<>>]
  /\ i = [n \in Names |-> 0]
  /\ srcIndex = [n \in Names |-> undefined]
  /\ lastArray = [n \in Names |-> 0]
  /\ fired = [n \in Names |-> <<>>]
  /\ graph = [n \in Names |-> <<>>]
  /\ progressCalls = [n \in Names |-> <<>>]

NextPositions ==
  \E buffer \in {Buffer(s) : s \in PositionStreams} \cup {OddBuffer} :
    SetPositions(Load, buffer)

SpecPositions == InitPositions /\ [][NextPositions]_vars

\* ------------------------------------------------------- position decoding
\* setPositions has decoded the buffer it was given.
PositionsDecoded(name) == positions[name] # <<>>

\* Whether x * k is an int32, told without forming a product that is not.
FitsInt32(x, k) ==
  IF k = 0 \/ k = 1 THEN TRUE
  ELSE IF k > 1
  THEN x <= 2147483647 \div k /\ x >= -(((2147483647 - (k - 1)) \div k) + 1)
  ELSE IF k = -1 THEN x >= -2147483647
  ELSE x >= -(2147483647 \div (-k)) /\ x <= ((2147483647 - (-k - 1)) \div (-k)) + 1

\* The sum of two int32 numbers as an int32: 2^32 off when it overflows.
WrapAdd(a, b) ==
  IF a > 0 /\ b > 2147483647 - a THEN (a - 2147483647 - 1) + (b - 2147483647 - 1)
  ELSE IF a < 0 /\ b < (-2147483647 - 1) - a THEN (a + 2147483647 + 1) + (b + 2147483647 + 1)
  ELSE a + b

\* The low 32 bits of x * k as a signed number, by repeated addition.
RECURSIVE WrapTimes(_, _)
WrapTimes(x, k) ==
  IF k = 0 THEN 0
  ELSE IF k > 0 THEN WrapAdd(WrapTimes(x, k - 1), x)
  ELSE LET plus == WrapTimes(x, -k) IN
       IF plus = -2147483647 - 1 THEN plus ELSE -plus

\* C14 as stated: the decoded positions have the buffer's length and order,
\* element i is buffer element i times the scale factor, for every buffer
\* and integer factor, and factor 1 returns the buffer's values.
C14_ScaledExactly ==
  \A n \in Names : PositionsDecoded(n) =>
    LET buf == positionsBuffer[n][1].int32
        out == positions[n][1] IN
    /\ Len(out) = Len(buf)
    /\ \A k \in 1..Len(buf) :
         FitsInt32(buf[k], scaleFactor) /\ out[k] = buf[k] * scaleFactor
    /\ scaleFactor = 1 => out = buf

\* C14 as amended: the decoded positions have the buffer's length and order,
\* and element i is buffer element i times the scale factor (the same factor
\* for x, y and z) reduced to an int32, the type of the array it is stored
\* in: the product itself whenever that is an int32, its low 32 bits as a
\* signed number otherwise.  Factor 1 returns the buffer's values unchanged.
C14_ScaledModInt32 ==
  \A n \in Names : PositionsDecoded(n) =>
    LET buf == positionsBuffer[n][1].int32
        out == positions[n][1] IN
    /\ Len(out) = Len(buf)
    /\ \A k \in 1..Len(buf) :
         /\ out[k] = WrapTimes(buf[k], scaleFactor)
         /\ FitsInt32(buf[k], scaleFactor) => out[k] = buf[k] * scaleFactor
    /\ scaleFactor = 1 => out = buf

\* reached: a triple has been scaled by 2, its z component overflowing.
C14_Witness ==
  /\ PositionsDecoded(Load)
  /\ scaleFactor = 2
  /\ positionsBuffer[Load][1].int32 = <<3, -2, 1073741824>>
  /\ positions[Load][1] = <<6, -4, -2147483647 - 1>>

\* ------------------------------------------------------- the data endpoint
\* C16: positions.bin, links.bin and labels.json are requested only after
\* setManifest chose the version, all from <base>/<name>/<version> with the
\* version setManifest chose (the one it wrote to the store), which is the
\* load's endpoint from then on; manifest.json is requested from
\* <base>/<name>.
C16_VersionBeforeData ==
  \A n \in Names :
    /\ Resolved(n) => Len(WritesOf(n)) = 1 /\ galaxyEndpoint[n] = <<n, WritesOf(n)[1].version>>
    /\ \A k \in 1..Len(requested[n]) :
         IF requested[n][k].file = "manifest.json"
         THEN requested[n][k].url = <<n>>
         ELSE /\ Resolved(n)
              /\ requested[n][k].url = galaxyEndpoint[n]

\* reached: the three data files have been requested from npm/v1, the
\* pinned and approved version.
C16_Witness ==
  /\ Len(requested[Load]) = 4
  /\ \A k \in 2..4 : requested[Load][k].url = <<Load, "v1">>
  /\ ManifestOf(Load).last = "v2"

\* ------------------------------------------------ declaring a source again
\* The position of the last negative token of s that declares src, and the
\* targets of the non-negative tokens between position k and the next
\* negative token, in stream order.
LastDeclaration(s, src) ==
  CHOOSE k \in NegativeTokens(s) :
    /\ -s[k] - 1 = src
    /\ \A j \in NegativeTokens(s) : -s[j] - 1 = src => j <= k

RunEnd(s, k) ==
  IF \E j \in NegativeTokens(s) : j > k
  THEN CHOOSE j \in NegativeTokens(s) :
         j > k /\ \A h \in NegativeTokens(s) : h > k => j <= h
  ELSE Len(s) + 1

TargetsAfter(s, k) == [j \in 1..(RunEnd(s, k) - k - 1) |-> s[k + j] - 1]

\* C17: a negative token v leaves outLinks[-v-1] empty and -v-1 the active
\* source, and after decoding outLinks[s], for every declared s, is the
\* sequence of the targets of the non-negative tokens between the last
\* declaration of s and the next negative token (empty if there are none).
C17_RedeclarationResets ==
  /\ (pc[Load] = "setLinks" /\ i[Load] >= 1 /\ links[Load][i[Load]] < 0) =>
       LET src == -links[Load][i[Load]] - 1 IN
       /\ src \in DOMAIN outLinks[Load]
       /\ outLinks[Load][src] = <<>>
       /\ srcIndex[Load] = src
       /\ lastArray[Load] = src
  /\ Decoded(Load) =>
       \A src \in DeclaredSources(links[Load]) :
         /\ src \in DOMAIN outLinks[Load]
         /\ outLinks[Load][src]
              = TargetsAfter(links[Load], LastDeclaration(links[Load], src))

\* reached: source 1 declared, given an edge, declared again and given
\* another; source 0 declared last with no edge.
C17_Witness ==
  /\ Decoded(Load)
  /\ links[Load] = <<-2, 1, -2, 3, -1>>
  /\ outLinks[Load][1] = <<2>>
  /\ outLinks[Load][0] = <<>>

\* ------------------------------------------------------------- transposes
\* How often x occurs in the list adj keeps for k (0 if it keeps none), and
\* every id that is a key or a list element of outLinks or inLinks.
Occurrences(adj, k, x) ==
  IF k \in DOMAIN adj THEN Cardinality({h \in 1..Len(adj[k]) : adj[k][h] = x}) ELSE 0

ElementsOf(adj) == UNION {{adj[k][h] : h \in 1..Len(adj[k])} : k \in DOMAIN adj}

NodeIds(name) ==
  DOMAIN outLinks[name] \cup DOMAIN inLinks[name]
    \cup ElementsOf(outLinks[name]) \cup ElementsOf(inLinks[name])

\* A stream that begins with a negative token, has no zero token and
\* declares no source twice.
DeclaresOnce(s) ==
  /\ s # <<>>
  /\ s[1] < 0
  /\ \A k \in 1..Len(s) : s[k] # 0
  /\ \A j, k \in NegativeTokens(s) : s[j] = s[k] => j = k

\* C20: while such a stream is decoded, after each of its tokens and at the
\* end, t occurs in outLinks[s] as often as s occurs in inLinks[t], for all
\* ids s and t.
C20_Transposes ==
  (pc[Load] \in {"setLinks", "loadLabels"} /\ DeclaresOnce(links[Load])) =>
    \A src, t \in NodeIds(Load) :
      Occurrences(outLinks[Load], src, t) = Occurrences(inLinks[Load], t, src)

\* reached: inside the loop, after the third token of -1, 2, 2, -2, 2:
\* node 1 twice in outLinks[0] and node 0 twice in inLinks[1].
C20_Witness ==
  /\ pc[Load] = "setLinks"
  /\ links[Load] = <<-1, 2, 2, -2, 2>>
  /\ i[Load] = 3
  /\ outLinks[Load][0] = <<1, 1>>
  /\ inLinks[Load][1] = <<0, 0>>

\* ------------------------------------------------------- progress events
\* The number reportProgress put before the '%' of an event's `completed`.
Percentage(c) == c.progress.completed[1]

\* C15: whenever `progress` is called, the event carries the load's name
\* and the kind of a file whose request is in flight at that moment, and its
\* percentage is within 0..100 and no less than the percentages reported
\* before for that kind; without such a request no event is delivered.
C15_ProgressTagged ==
  [][\A n \in Names :
       progressCalls'[n] # progressCalls[n] =>
         /\ Len(progressCalls'[n]) = Len(progressCalls[n]) + 1
         /\ SubSeq(progressCalls'[n], 1, Len(progressCalls[n])) = progressCalls[n]
         /\ LET c == progressCalls'[n][Len(progressCalls'[n])] IN
            /\ c.progress.name = n
            /\ \E file \in pending[n] \cap DOMAIN ProgressKind :
                 /\ pending[n] = {file}
                 /\ c.progress.file = ProgressKind[file]
            /\ c.progress.completed[2] = "%"
            /\ Percentage(c) \in 0..100
            /\ \A k \in 1..Len(progressCalls[n]) :
                 progressCalls[n][k].progress.file = c.progress.file =>
                   Percentage(progressCalls[n][k]) <= Percentage(c)]_vars

\* reached: links.bin in flight after two events for positions and two for
\* links, 12.5% reported as 13 and 99.4% as 99.
C15_Witness ==
  /\ pending[Load] = {"links.bin"}
  /\ Len(progressCalls[Load]) = 4
  /\ progressCalls[Load][2].progress = [name |-> Load, file |-> "positions", completed |-> <<100, "%">>]
  /\ progressCalls[Load][3].progress = [name |-> Load, file |-> "links", completed |-> <<13, "%">>]
  /\ progressCalls[Load][4].progress = [name |-> Load, file |-> "links", completed |-> <<99, "%">>]

\* ------------------------------------------------------------ termination
\* The promise loadGraph returned is settled.
Settled(name) == pc[name] \in {"resolved", "rejected"}

\* C18: when every request is answered, a load that was started is settled
\* in the end; until then one of its requests is in flight; and it resolves
\* only with a graph, after its four files were requested and answered and
\* its three events fired.
C18_LoadTerminates ==
  /\ [](\A n \in Names : (pc[n] # "idle" /\ ~Settled(n)) => pending[n] # {})
  /\ [](\A n \in Names : pc[n] = "resolved" =>
          /\ graph[n] # <<>>
          /\ error[n] = <<>>
          /\ RequestedFiles(n) = FileOrder
          /\ pending[n] = {}
          /\ fired[n] = EventOrder)
  /\ (pc[Load] # "idle") ~> Settled(Load)

\* reached: the load resolved with a graph after four answered requests.
C18_Witness ==
  /\ graph[Load] # <<>>
  /\ Len(requested[Load]) = 4
  /\ pending[Load] = {}
  /\ error[Load] = <<>>

\* ------------------------------------------------------- concurrent loads
\* The version a manifest object m resolves to when p is pinned: p when it
\* is present, not empty and in m.all, and m.last in every other case.
ResolutionOf(m, p) ==
  IF p # noVersion /\ p # "" /\ m.all # <<>> /\ p \in m.all[1] THEN p ELSE m.last

\* The step in which setManifest of the load of `name` runs.
SetManifestRuns(name) == manifest[name] = <<>> /\ manifest'[name] # <<>>

\* C19: with two loads interleaving, the step in which a load's setManifest
\* runs reads the store as it is when the step begins and, for a manifest
\* object, leaves in it the resolution of that value against the load's own
\* manifest, written by one call; the store changes in no other step, so it
\* holds its initial value or the version the last such step resolved.
C19_ReadAndWriteInOneStep ==
  /\ [][/\ \A n \in Names : SetManifestRuns(n) =>
             /\ appConfigVersion'[n] = manifestVersion
             /\ IF manifest'[n][1].null
                THEN /\ manifestVersion' = manifestVersion
                     /\ setVersionCalls' = setVersionCalls
                ELSE /\ manifestVersion' = ResolutionOf(manifest'[n][1], manifestVersion)
                     /\ setVersionCalls' =
                          Append(setVersionCalls, [name |-> n, version |-> manifestVersion'])
                     /\ galaxyEndpoint'[n] = <<n, manifestVersion'>>
        /\ (manifestVersion' # manifestVersion \/ setVersionCalls' # setVersionCalls) =>
             \E n \in Names : SetManifestRuns(n)]_vars
  /\ [](setVersionCalls # <<>> =>
          LET last == setVersionCalls[Len(setVersionCalls)] IN
          /\ manifestVersion = last.version
          /\ Resolved(last.name)
          /\ ChosenOf(last.name) = manifestVersion)

\* reached: with "v1" pinned at first, npm resolved {last: "v2", all: ["v2"]}
\* to "v2" and wrote it; bower then read "v2" and resolved
\* {last: "v2", all: ["v1", "v2"]} to it, where it would have kept "v1" had
\* it run first.
C19_Witness ==
  /\ setVersionCalls = <<[name |-> "npm", version |-> "v2"], [name |-> "bower", version |-> "v2"]>>
  /\ appConfigVersion["npm"] = "v1"
  /\ appConfigVersion["bower"] = "v2"
  /\ manifest["bower"] = <<ManifestObject("v2", <<{"v1", "v2"}>>)>>
  /\ pc["npm"] = "loadPositions"

====
